---- MODULE Spec2Model ----
(***************************************************************************)
(* Model of IQService (src/typescript/service.ts): the chatroom registry,  *)
(* the reference resolver, sendMessage, readMessages with its three read   *)
(* sources, and the message polling loop, together with the settings       *)
(* loader of src/unnamed/part_011 that the service is constructed from.    *)
(*                                                                         *)
(* Strings are sequences of one-character strings, so that toLowerCase,    *)
(* trim and includes are computed rather than assumed.                     *)
(***************************************************************************)
EXTENDS Integers, Sequences, FiniteSets, TLC

\* ------------------------------------------------------------------ bounds
MaxLen == 2          \* longest reference passed to a direct resolveChatroom call
MaxRooms == 3        \* callers stop introducing new rooms at this registry size
MaxSends == 1        \* sendMessage calls that reach the ledger write
MaxBatch == 2        \* messages a read source returns to the poller (limit 20)
CallerLimit == 1     \* the limit a caller passes to readMessages
CountCap == 2        \* hand-off / notification counters saturate here
ChainCap == 2        \* autonomy step chains that are running at one time
StepLimit == 2       \* the IQ_AUTONOMY_MAX_STEPS value of a limited agent
MaxOver == 1         \* content lengths tried beyond maxContentLength

\* ----------------------------------------------------------------- strings
Chars == {"a", "A", "b", " "}

\* the characters of the references passed to direct resolveChatroom calls
RefChars == {"a", "A", " "}

Refs == UNION {[1..k -> RefChars] : k \in 0..MaxLen}

lowerChar(c) == IF c = "A" THEN "a" ELSE c

\* String.prototype.toLowerCase
toLowerCase(s) == [i \in 1..Len(s) |-> lowerChar(s[i])]

RECURSIVE trimStart(_)
trimStart(s) == IF s # <<>> /\ Head(s) = " " THEN trimStart(Tail(s)) ELSE s

RECURSIVE trimEnd(_)
trimEnd(s) ==
    IF s # <<>> /\ s[Len(s)] = " " THEN trimEnd(SubSeq(s, 1, Len(s) - 1)) ELSE s

\* String.prototype.trim
trim(s) == trimEnd(trimStart(s))

\* String.prototype.includes
includes(s, sub) ==
    \E i \in 0..(Len(s) - Len(sub)) : SubSeq(s, i + 1, i + Len(sub)) = sub

\* Array.prototype.includes on a list of strings
listIncludes(l, x) == \E i \in 1..Len(l) : l[i] = x

RECURSIVE filterNonEmpty(_)
filterNonEmpty(l) ==
    IF l = <<>> THEN <<>>
    ELSE IF Head(l) = <<>> THEN filterNonEmpty(Tail(l))
    ELSE <<Head(l)>> \o filterNonEmpty(Tail(l))

\* --------------------------------------------------------------- constants
NoValue == <<"<unset>">>          \* an undefined setting
NoList == << <<"<unset>">> >>     \* an undefined IQ_CHATROOMS

\* "General" and ["General", "Bags App", "Pump Fun"]: three names with
\* capitals and inner blanks, none a substring of another
DEFAULT_CHATROOM == <<"A", "a">>
DEFAULT_CHATROOMS == << <<"A", "a">>, <<"b", " ", "a">>, <<"b", "b">> >>

\* --------------------------------------------------------------- settings
\* The environment the settings are read from.  IQ_CHATROOMS is the list of
\* comma-separated items before trimming; the signer values carry whether the
\* key decodes and whether the keypair file exists; IQ_AUTONOMY_MAX_STEPS is
\* <<>> when unset and <<n>> when set to n.
Env(rooms, def, key, path, rpc, auto, llm, sdk) ==
    [ IQ_CHATROOMS |-> rooms, IQ_DEFAULT_CHATROOM |-> def,
      SOLANA_PRIVATE_KEY |-> key, SOLANA_KEYPAIR_PATH |-> path,
      SOLANA_RPC_URL |-> rpc, IQ_AUTONOMOUS_MODE |-> auto,
      LLM_API_KEY |-> llm, IQ_AUTONOMY_MAX_STEPS |-> <<>>,
      sdkInstalled |-> sdk ]

\* the environment env with IQ_AUTONOMY_MAX_STEPS set to n
withMaxSteps(env, n) == [env EXCEPT !.IQ_AUTONOMY_MAX_STEPS = <<n>>]

RoomLists == { NoList,
               << <<"a">>, <<"A">> >>,
               << <<"a", "b">>, <<"a">> >>,
               << <<" ", "b">>, <<>> >> }

DefaultRooms == { NoValue, <<"a">>, <<"b">>, <<"a", " ">> }

\* environments of the messaging specification: every way the signer and the
\* RPC endpoint can be configured, with and without the SDK, in both modes
Envs ==
    { Env(<< <<"a">>, <<"A">> >>, NoValue, "valid", "unset", "url", FALSE, "unset", TRUE),
      Env(<< <<"A", "a">> >>, NoValue, "unset", "file", "url", TRUE, "set", TRUE),
      Env(<< <<"a">>, <<"A">> >>, NoValue, "valid", "unset", "url", FALSE, "unset", FALSE),
      Env(NoList, NoValue, "unset", "unset", "url", FALSE, "unset", TRUE),
      Env(NoList, NoValue, "valid", "unset", "url", TRUE, "unset", TRUE),
      Env(NoList, NoValue, "undecodable", "file", "url", FALSE, "unset", TRUE),
      Env(NoList, NoValue, "unset", "nofile", "url", FALSE, "unset", FALSE),
      Env(NoList, NoValue, "valid", "unset", "malformed", FALSE, "unset", TRUE),
      Env(<< <<"a">>, <<"A">> >>, NoValue, "valid", "unset", "unset", FALSE, "unset", TRUE) }

\* environments of the resolver specification: every room list with every
\* default room, and one service whose signer does not load
EnvsResolve ==
    { Env(l, d, "valid", "unset", "url", FALSE, "unset", TRUE) :
          l \in RoomLists, d \in DefaultRooms }
    \cup { Env(NoList, NoValue, "undecodable", "unset", "url", FALSE, "unset", TRUE) }

\* references the callers of sendMessage and readMessages pass
CallerRefs == { <<>>, <<"A">>, <<" ", "b">> }

\* URLS.solanaRpc, a well-formed endpoint
URLS_solanaRpc == "url"

\* the array DEFAULT_CHATROOMS refers to after getIQSettings has run on it:
\* without IQ_CHATROOMS, chatrooms is that very array, and unshift changes it
\* in place
unshifted(defaults, env) ==
    LET defaultChatroom == IF env.IQ_DEFAULT_CHATROOM # NoValue
                           THEN env.IQ_DEFAULT_CHATROOM ELSE DEFAULT_CHATROOM
    IN  IF env.IQ_CHATROOMS = NoList /\ ~listIncludes(defaults, defaultChatroom)
        THEN <<defaultChatroom>> \o defaults
        ELSE defaults

\* getIQSettings, run when DEFAULT_CHATROOMS refers to the array defaults
getIQSettings(defaults, env) ==
    LET chatroomsStr == env.IQ_CHATROOMS
        parsed == IF chatroomsStr # NoList
                  THEN filterNonEmpty([i \in 1..Len(chatroomsStr) |-> trim(chatroomsStr[i])])
                  ELSE <<>>
        \* an IQ_CHATROOMS value is truthy whenever it is set and non-blank
        chatrooms == IF chatroomsStr # NoList THEN parsed ELSE defaults
        defaultChatroom == IF env.IQ_DEFAULT_CHATROOM # NoValue
                           THEN env.IQ_DEFAULT_CHATROOM ELSE DEFAULT_CHATROOM
    IN  [ rpcUrl |-> IF env.SOLANA_RPC_URL # "unset"
                     THEN env.SOLANA_RPC_URL ELSE URLS_solanaRpc,
          keypairPath |-> env.SOLANA_KEYPAIR_PATH,
          privateKey |-> env.SOLANA_PRIVATE_KEY,
          defaultChatroom |-> defaultChatroom,
          chatrooms |-> IF listIncludes(chatrooms, defaultChatroom)
                        THEN chatrooms
                        ELSE <<defaultChatroom>> \o chatrooms,
          llmApiKey |-> env.LLM_API_KEY,
          autonomyMaxSteps |-> IF env.IQ_AUTONOMY_MAX_STEPS # <<>>
                               THEN env.IQ_AUTONOMY_MAX_STEPS[1] ELSE 0,
          autonomousMode |-> env.IQ_AUTONOMOUS_MODE,
          sdkInstalled |-> env.sdkInstalled ]

\* variant: the signer check is left out
validateWithoutSigner(s) ==
    /\ s.rpcUrl # "unset"
    /\ ~(s.autonomousMode /\ s.llmApiKey = "unset")

\* valid: errors.length === 0
validateIQSettings(s) ==
    /\ ~(s.keypairPath = "unset" /\ s.privateKey = "unset")
    /\ s.rpcUrl # "unset"
    /\ ~(s.autonomousMode /\ s.llmApiKey = "unset")

\* ---------------------------------------------------------------- messages
\* A message as a read source returns it.  Ids <<"s", n>> are the ids nanoid()
\* hands to this process, <<"f", n>> ids of other wallets' messages.
SelfWallet == "self"

\* the IQMessage sendMessage builds for its n-th call: a fresh id, the caller's
\* content, the service's wallet
\* MESSAGE_LIMITS.maxContentLength
maxContentLength == 2000

\* the lengths of the texts callers send: a short text, and texts at and just
\* over MESSAGE_LIMITS.maxContentLength
ShortLength == 1
ContentLengths == {ShortLength} \cup {maxContentLength + k : k \in 0..MaxOver}

\* the text of the n-th send, known by its length
SentMsg(n, length) ==
    [id |-> <<"s", n>>, wallet |-> SelfWallet, content |-> <<"c", n, length>>]

\* content.length of a text that was sent
contentLength(content) == content[3]

ForeignMsgs == {[id |-> <<"f", n>>, wallet |-> "other", content |-> <<"o", n>>] : n \in {1, 2}}

Msgs == ForeignMsgs \cup {SentMsg(n, l) : n \in 1..MaxSends, l \in ContentLengths}

Ids == {m.id : m \in Msgs}

SeqsUpTo(S, n) == UNION {[1..k -> S] : k \in 0..n}

WriteErrors == {"rejected", "timeout"}

\* ------------------------------------------------------------------- state
VARIABLES
    settings,       \* IQService.settings, loaded by the constructor
    defaultChatrooms,  \* the array the export DEFAULT_CHATROOMS refers to
    status,         \* "constructed" | "startFailed" (start threw) | "started"
    sdkAvailable,   \* IQService.sdkAvailable
    connection,     \* IQService.connection is set
    keypair,        \* IQService.keypair is set
    dbRootId,       \* IQService.dbRootId is set
    dbRootPda,      \* IQService.dbRootPda (and programId) is set
    chatrooms,      \* IQService.chatrooms: entries in insertion order
    roomEvents,     \* CHATROOM_CONNECTED notifications emitted, in order
    seenMessages,   \* IQService.seenMessages
    ledger,         \* rows the external ledger holds: [msg, seed, chatroom]
    sendCount,      \* ids handed out by nanoid() so far
    snd,            \* the sendMessage call in progress
    sentEvents,     \* MESSAGE_SENT notifications emitted, in order
    rd,             \* the readMessages calls in progress: poller's and a caller's
    poll,           \* the polling loop's position
    received,       \* MESSAGE_RECEIVED notifications emitted, per message id
    handed,         \* processIncomingMessage calls, per message id
    resolved,       \* result of the last direct resolveChatroom call
    autonomy        \* the autonomy loop: its fields, its steps and its timers

coreVars == <<settings, defaultChatrooms, status, sdkAvailable, connection,
              keypair, dbRootId, dbRootPda>>

svcVars == <<settings, defaultChatrooms, status, sdkAvailable, connection,
             keypair, dbRootId, dbRootPda, autonomy>>

regVars == <<chatrooms, roomEvents>>

sendVars == <<ledger, sendCount, snd, sentEvents>>

pollVars == <<poll, received, handed>>

vars == <<svcVars, regVars, seenMessages, sendVars, rd, pollVars, resolved>>

NoRoom == [key |-> <<>>, name |-> <<>>, tableSeed |-> <<>>, tablePda |-> <<>>]

\* ------------------------------------------------------- chatroom registry
\* Map.prototype.get on the insertion-ordered entry list
mapHas(rooms, key) == \E i \in 1..Len(rooms) : rooms[i].key = key

mapGet(rooms, key) ==
    rooms[CHOOSE i \in 1..Len(rooms) : rooms[i].key = key]

\* Map.prototype.set: an existing key keeps its position, a new key is appended
mapSet(rooms, key, room) ==
    IF mapHas(rooms, key)
    THEN [i \in 1..Len(rooms) |-> IF rooms[i].key = key THEN room ELSE rooms[i]]
    ELSE Append(rooms, room)

\* sha256(CHATROOM_PREFIX + name): one seed per exact (case-sensitive) name
tableSeedOf(chatroomName) == <<"seed">> \o chatroomName

\* getTablePda(dbRootPda, tableSeed, programId).toBase58()
tablePdaOf(chatroomName) == <<"pda">> \o chatroomName

\* The fields of the service that ensureChatroom reads besides the registry.
Caps == [dbRootId : BOOLEAN, derive : BOOLEAN]

capsNow == [dbRootId |-> dbRootId, derive |-> sdkAvailable /\ dbRootPda]

\* variant: an existing room is found by its exact name only
ensureChatroomExact(rooms, caps, chatroomName) ==
    LET key == toLowerCase(chatroomName)
        chatroom == [key |-> key, name |-> chatroomName,
                     tableSeed |-> tableSeedOf(chatroomName),
                     tablePda |-> IF caps.derive
                                  THEN tablePdaOf(chatroomName) ELSE <<>>]
    IN  IF \E i \in 1..Len(rooms) : rooms[i].name = chatroomName
        THEN [threw |-> FALSE, rooms |-> rooms, room |-> mapGet(rooms, key),
              emitted |-> <<>>]
        ELSE IF ~caps.dbRootId
        THEN [threw |-> TRUE, rooms |-> rooms, room |-> NoRoom, emitted |-> <<>>]
        ELSE [threw |-> FALSE, rooms |-> mapSet(rooms, key, chatroom),
              room |-> chatroom, emitted |-> <<chatroomName>>]

\* variant: the registry key is the name as given
ensureChatroomRawKey(rooms, caps, chatroomName) ==
    LET key == chatroomName
        chatroom == [key |-> key, name |-> chatroomName,
                     tableSeed |-> tableSeedOf(chatroomName),
                     tablePda |-> IF caps.derive
                                  THEN tablePdaOf(chatroomName) ELSE <<>>]
    IN  IF mapHas(rooms, key)
        THEN [threw |-> FALSE, rooms |-> rooms, room |-> mapGet(rooms, key),
              emitted |-> <<>>]
        ELSE IF ~caps.dbRootId
        THEN [threw |-> TRUE, rooms |-> rooms, room |-> NoRoom, emitted |-> <<>>]
        ELSE [threw |-> FALSE, rooms |-> mapSet(rooms, key, chatroom),
              room |-> chatroom, emitted |-> <<chatroomName>>]

\* IQService.ensureChatroom: the result carries the registry afterwards, the
\* room returned, the notifications emitted, and whether the call threw.
ensureChatroom(rooms, caps, chatroomName) ==
    LET key == toLowerCase(chatroomName) IN
    IF mapHas(rooms, key)
    THEN [threw |-> FALSE, rooms |-> rooms, room |-> mapGet(rooms, key),
          emitted |-> <<>>]
    ELSE IF ~caps.dbRootId
    THEN [threw |-> TRUE, rooms |-> rooms, room |-> NoRoom, emitted |-> <<>>]
    ELSE LET chatroom == [key |-> key,
                          name |-> chatroomName,
                          tableSeed |-> tableSeedOf(chatroomName),
                          tablePda |-> IF caps.derive
                                       THEN tablePdaOf(chatroomName) ELSE <<>>]
         IN  [threw |-> FALSE, rooms |-> mapSet(rooms, key, chatroom),
              room |-> chatroom, emitted |-> <<chatroomName>>]

\* index of the first entry, in insertion order, that satisfies the test
firstExact(rooms, refLower) ==
    CHOOSE i \in 1..Len(rooms) :
        /\ rooms[i].key = refLower
        /\ \A j \in 1..(i - 1) : rooms[j].key # refLower

fuzzy(key, refLower) == includes(key, refLower) \/ includes(refLower, key)

\* variant: the latest-registered related room wins
lastFuzzy(rooms, refLower) ==
    CHOOSE i \in 1..Len(rooms) :
        /\ fuzzy(rooms[i].key, refLower)
        /\ \A j \in (i + 1)..Len(rooms) : ~fuzzy(rooms[j].key, refLower)

\* index of the first entry, in insertion order, with a substring relation
firstFuzzy(rooms, refLower) ==
    CHOOSE i \in 1..Len(rooms) :
        /\ fuzzy(rooms[i].key, refLower)
        /\ \A j \in 1..(i - 1) : ~fuzzy(rooms[j].key, refLower)

\* const newChatroom = this.ensureChatroom(ref); return newChatroom.name;
nameOf(e) ==
    [threw |-> e.threw, rooms |-> e.rooms, name |-> e.room.name,
     emitted |-> e.emitted]

\* variant: an empty ref goes through the lookup like any other
resolveChatroomNoDefault(rooms, caps, defaultChatroom, ref) ==
    LET refLower == trim(toLowerCase(ref)) IN
    IF \E i \in 1..Len(rooms) : rooms[i].key = refLower
    THEN [threw |-> FALSE, rooms |-> rooms,
          name |-> rooms[firstExact(rooms, refLower)].name, emitted |-> <<>>]
    ELSE IF \E i \in 1..Len(rooms) : fuzzy(rooms[i].key, refLower)
    THEN [threw |-> FALSE, rooms |-> rooms,
          name |-> rooms[firstFuzzy(rooms, refLower)].name, emitted |-> <<>>]
    ELSE nameOf(ensureChatroom(rooms, caps, ref))

\* variant: the substring loop alone, without the exact-match loop before it
resolveChatroomFuzzyFirst(rooms, caps, defaultChatroom, ref) ==
    LET refLower == trim(toLowerCase(ref)) IN
    IF ref = <<>>
    THEN [threw |-> FALSE, rooms |-> rooms, name |-> defaultChatroom,
          emitted |-> <<>>]
    ELSE IF \E i \in 1..Len(rooms) : fuzzy(rooms[i].key, refLower)
    THEN [threw |-> FALSE, rooms |-> rooms,
          name |-> rooms[firstFuzzy(rooms, refLower)].name, emitted |-> <<>>]
    ELSE nameOf(ensureChatroom(rooms, caps, ref))

\* IQService.resolveChatroom; ref = <<>> stands for an empty or absent ref
resolveChatroom(rooms, caps, defaultChatroom, ref) ==
    LET refLower == trim(toLowerCase(ref)) IN
    IF ref = <<>>
    THEN [threw |-> FALSE, rooms |-> rooms, name |-> defaultChatroom,
          emitted |-> <<>>]
    ELSE IF \E i \in 1..Len(rooms) : rooms[i].key = refLower
    THEN [threw |-> FALSE, rooms |-> rooms,
          name |-> rooms[firstExact(rooms, refLower)].name, emitted |-> <<>>]
    ELSE IF \E i \in 1..Len(rooms) : fuzzy(rooms[i].key, refLower)
    THEN [threw |-> FALSE, rooms |-> rooms,
          name |-> rooms[firstFuzzy(rooms, refLower)].name, emitted |-> <<>>]
    ELSE nameOf(ensureChatroom(rooms, caps, ref))

\* getConnectedChatrooms
getConnectedChatrooms(rooms) == [i \in 1..Len(rooms) |-> rooms[i].name]

\* the loop of initialize over settings.chatrooms
RECURSIVE ensureAll(_, _, _, _)
RECURSIVE ensureRest(_, _, _, _)
ensureAll(rooms, emitted, caps, names) ==
    IF names = <<>> THEN [rooms |-> rooms, emitted |-> emitted]
    ELSE ensureRest(ensureChatroom(rooms, caps, Head(names)), emitted, caps,
                    Tail(names))

\* the iterations after the one whose ensureChatroom call had outcome e
ensureRest(e, emitted, caps, names) ==
    ensureAll(e.rooms, emitted \o e.emitted, caps, names)

\* ------------------------------------------------------------ readMessages
RdIdle == [pc |-> "idle", limit |-> 0, target |-> <<>>, room |-> NoRoom,
           calls |-> <<>>, result |-> <<>>]

\* targetName and targetChatroom, given the outcomes t of the resolution and
\* e of ensureChatroom(targetName)
targetOf(t, e) ==
    [threw |-> e.threw, rooms |-> e.rooms, name |-> t.name,
     room |-> e.room, emitted |-> t.emitted \o e.emitted]

\* const targetChatroom = this.ensureChatroom(targetName);
ensureTarget(t, caps) ==
    IF t.threw
    THEN [threw |-> TRUE, rooms |-> t.rooms, name |-> t.name,
          room |-> NoRoom, emitted |-> t.emitted]
    ELSE targetOf(t, ensureChatroom(t.rooms, caps, t.name))

\* chatroom ? resolveChatroom(chatroom) : defaultChatroom, then ensureChatroom
resolveTarget(rooms, caps, defaultChatroom, chatroom) ==
    ensureTarget(IF chatroom # <<>>
                 THEN resolveChatroom(rooms, caps, defaultChatroom, chatroom)
                 ELSE [threw |-> FALSE, rooms |-> rooms,
                       name |-> defaultChatroom, emitted |-> <<>>],
                 caps)

\* the call with its target t resolved: it raised, or it awaits the API
fetchApi(t, limit) ==
    [threw |-> t.threw, rooms |-> t.rooms, emitted |-> t.emitted,
     slot |-> IF t.threw
              THEN [RdIdle EXCEPT !.pc = "raised"]
              ELSE [pc |-> "api", limit |-> limit, target |-> t.name,
                    room |-> t.room,
                    calls |-> <<[src |-> "api", res |-> "pending"]>>,
                    result |-> <<>>]]

\* readMessages up to its first await: the target is resolved and the primary
\* API request is issued.
readStart(rooms, caps, defaultChatroom, limit, chatroom) ==
    fetchApi(resolveTarget(rooms, caps, defaultChatroom, chatroom), limit)

setLast(calls, res) == [calls EXCEPT ![Len(calls)].res = res]

\* variant: the gateway block is passed over
readAfterApiToDirect(slot, sdk, res) ==
    IF sdk /\ slot.room.tablePda # <<>>
    THEN [slot EXCEPT !.pc = "direct",
                      !.calls = Append(setLast(@, res),
                                       [src |-> "direct", res |-> "pending"])]
    ELSE [slot EXCEPT !.pc = "done", !.calls = setLast(@, res), !.result = <<>>]

\* the primary API request did not yield messages: !response.ok, a rejected
\* fetch, or a body that does not parse into a message list
readAfterApi(slot, sdk, res) ==
    IF slot.room.tablePda # <<>>
    THEN [slot EXCEPT !.pc = "gateway",
                      !.calls = Append(setLast(@, res),
                                       [src |-> "gateway", res |-> "pending"])]
    ELSE [slot EXCEPT !.pc = "done", !.calls = setLast(@, res), !.result = <<>>]

readAfterGateway(slot, sdk, res) ==
    IF sdk /\ slot.room.tablePda # <<>>
    THEN [slot EXCEPT !.pc = "direct",
                      !.calls = Append(setLast(@, res),
                                       [src |-> "direct", res |-> "pending"])]
    ELSE [slot EXCEPT !.pc = "done", !.calls = setLast(@, res), !.result = <<>>]

readAfterDirect(slot, sdk, res) ==
    [slot EXCEPT !.pc = "done", !.calls = setLast(@, res), !.result = <<>>]

readOk(slot, msgs) ==
    [slot EXCEPT !.pc = "done", !.calls = setLast(@, "ok"), !.result = msgs]


\* ------------------------------------------------------------ polling loop
bump(f, id) == [f EXCEPT ![id] = IF @ < CountCap THEN @ + 1 ELSE @]

\* getWalletAddress
getWalletAddress(hasKeypair) == IF hasKeypair THEN SelfWallet ELSE ""

\* no MESSAGE_RECEIVED notification yet
NoCur == [id |-> <<"s", 0>>, chatroom |-> <<>>]

RECURSIVE pollRooms(_, _)
RECURSIVE pollRead(_, _, _)
\* the for-loop of poll over the live registry, entered at entry m.idx, run
\* until its next await: a read in flight, or the 5 s timer after the last room
pollRooms(m, ctx) ==
    IF m.idx > Len(m.rooms)
    THEN [m EXCEPT !.pc = "timer", !.slot = RdIdle, !.batch = <<>>,
                   !.idx = 0, !.skipped = {}, !.cur = NoCur, !.swept = <<>>,
                   !.failed = {}, !.atStart = 0, !.sweeps = @ - 1]
    ELSE pollRead([m EXCEPT !.swept = Append(@, m.rooms[m.idx].name)], ctx,
                  readStart(m.rooms, ctx.caps, ctx.defaultChatroom,
                            MaxBatch, m.rooms[m.idx].name))

\* the body of the for-loop once readMessages(20, chatroom.name) was called
\* with outcome r: the catch of this room, or the await of the read
pollRead(m, ctx, r) ==
    IF r.threw
    THEN pollRooms([m EXCEPT !.idx = @ + 1,
                             !.failed = @ \cup {m.rooms[m.idx].name}], ctx)
    ELSE [m EXCEPT !.pc = "reading", !.slot = r.slot, !.rooms = r.rooms,
                   !.batch = <<>>, !.skipped = {}, !.cur = NoCur,
                   !.emitted = @ \o r.emitted]

\* variant: no message counts as seen
skipSeenNever(seen, msg) == FALSE

\* if (this.seenMessages.has(msg.id)) continue;
skipSeen(seen, msg) == msg.id \in seen

\* variant: no message counts as the service's own
skipOwnNever(wallet, msg) == FALSE

\* if (msg.wallet === this.getWalletAddress()) continue;
skipOwn(wallet, msg) == msg.wallet = wallet

\* variant: the id is not added to the seen-set
markSeenNot(seen, msg) == seen

\* this.seenMessages.add(msg.id);
markSeen(seen, msg) == seen \cup {msg.id}

RECURSIVE pollBatch(_, _)
\* the inner loop over the messages of one read, run until its next await
pollBatch(m, ctx) ==
    IF m.batch = <<>>
    THEN pollRooms([m EXCEPT !.idx = @ + 1], ctx)
    ELSE LET msg == Head(m.batch)
             rest == [m EXCEPT !.batch = Tail(@)]
             skip == [rest EXCEPT !.skipped = @ \cup {msg.id}]
         IN  IF skipSeen(m.seen, msg) THEN pollBatch(skip, ctx)
             ELSE IF skipOwn(ctx.wallet, msg) THEN pollBatch(skip, ctx)
             ELSE LET marked == [rest EXCEPT
                                   !.seen = markSeen(@, msg),
                                   !.received = bump(@, msg.id),
                                   !.cur = [id |-> msg.id,
                                            chatroom |-> m.rooms[m.idx].name]]
                  IN  IF ctx.autonomousMode
                      THEN pollBatch(marked, ctx)
                      ELSE [marked EXCEPT !.pc = "handoff",
                                          !.handed = bump(@, msg.id)]

\* The poll closure: pc, the position idx of the Map iterator and the rest of
\* the batch at hand; and what it did, kept for the properties:
\*   skipped  ids the inner loop passed over (continue) in the batch at hand
\*   cur      payload of the latest MESSAGE_RECEIVED of the batch at hand
\*   swept    names readMessages was called with in this sweep, in order
\*   failed   rooms of this sweep that ended in the catch block
\*   atStart  size of the registry when this sweep began
\*   sweeps   invocations of poll that have not reached their setTimeout
PollOff == [pc |-> "off", idx |-> 0, batch |-> <<>>, skipped |-> {},
            cur |-> NoCur, swept |-> <<>>, failed |-> {}, atStart |-> 0,
            sweeps |-> 0]

machine(rooms, slot, p) ==
    [seen |-> seenMessages, received |-> received, handed |-> handed,
     rooms |-> rooms, emitted |-> <<>>, slot |-> slot,
     pc |-> p.pc, idx |-> p.idx, batch |-> p.batch, skipped |-> p.skipped,
     cur |-> p.cur, swept |-> p.swept, failed |-> p.failed,
     atStart |-> p.atStart, sweeps |-> p.sweeps]

\* poll() is entered: the iterator is created over this.chatrooms
sweepStart(m) ==
    [m EXCEPT !.idx = 1, !.batch = <<>>, !.skipped = {}, !.cur = NoCur,
              !.swept = <<>>, !.failed = {}, !.atStart = Len(m.rooms),
              !.sweeps = IF @ < CountCap THEN @ + 1 ELSE @]

ctxOf(caps, hasKeypair) ==
    [caps |-> caps, defaultChatroom |-> settings.defaultChatroom,
     autonomousMode |-> settings.autonomousMode,
     wallet |-> getWalletAddress(hasKeypair)]

\* startMessagePolling() once initialize has registered the rooms reg
firstSweep(reg) ==
    sweepStart([machine(reg.rooms, RdIdle, PollOff)
                  EXCEPT !.emitted = reg.emitted])

\* the state after a poller continuation m has run
PollCommit(m) ==
    /\ seenMessages' = m.seen
    /\ received' = m.received
    /\ handed' = m.handed
    /\ chatrooms' = m.rooms
    /\ roomEvents' = roomEvents \o m.emitted
    /\ rd' = [rd EXCEPT !["poll"] = m.slot]
    /\ poll' = [pc |-> m.pc, idx |-> m.idx, batch |-> m.batch,
                skipped |-> m.skipped, cur |-> m.cur, swept |-> m.swept,
                failed |-> m.failed, atStart |-> m.atStart,
                sweeps |-> m.sweeps]

\* --------------------------------------------------------------- sendMessage
SndIdle == [pc |-> "idle", target |-> <<>>, room |-> NoRoom,
            msg |-> [id |-> <<"s", 0>>, wallet |-> ""], writes |-> 0,
            txSig |-> <<>>, rejected |-> "", ret |-> <<>>, err |-> ""]

txSigOf(msg) == <<"tx">> \o msg.id

\* variant: the SDK check is left out
sendGuardKeyOnly(sdk, conn, kp) ==
    IF ~conn \/ ~kp THEN "not-initialized" ELSE "ok"

\* the two checks sendMessage makes before it touches anything
sendGuard(sdk, conn, kp) ==
    IF ~sdk THEN "sdk-required"
    ELSE IF ~conn \/ ~kp THEN "not-initialized"
    ELSE "ok"

\* ------------------------------------------------------------- construction
\* ---------------------------------------------------------- autonomy loop
\* autonomyRunning, autonomyStepCount and autonomyTimeout (set or null); the
\* steps awaiting readMessages and handleMessage; the timers that are pending
\* and whether the one autonomyTimeout refers to is among them; stopCalled
\* records a call of stop().
AutoOff == [running |-> FALSE, stepCount |-> 0, timeout |-> FALSE,
            handleLive |-> FALSE, timers |-> 0, reading |-> 0, handling |-> 0,
            stopCalled |-> FALSE]

\* IQService.stopAutonomyLoop
stopAutonomyLoop(a) ==
    IF ~a.running THEN a
    ELSE [a EXCEPT !.running = FALSE, !.timeout = FALSE, !.handleLive = FALSE,
                   !.timers = IF a.timeout /\ a.handleLive THEN @ - 1 ELSE @]

\* the end of runAutonomyStep: if (this.autonomyRunning) setTimeout(...)
scheduleNext(a) ==
    IF a.running
    THEN [a EXCEPT !.timeout = TRUE, !.handleLive = TRUE, !.timers = @ + 1]
    ELSE a

\* runAutonomyStep up to its first await; readThrew: readMessages(10) rejects
\* before it awaits a source
runAutonomyStep(a, maxSteps, readThrew) ==
    IF ~a.running THEN a
    ELSE IF maxSteps # 0 /\ a.stepCount >= maxSteps THEN stopAutonomyLoop(a)
    ELSE IF readThrew
    THEN scheduleNext([a EXCEPT !.stepCount = IF @ < CountCap THEN @ + 1 ELSE @])
    ELSE [a EXCEPT !.stepCount = IF @ < CountCap THEN @ + 1 ELSE @,
                   !.reading = @ + 1]

\* IQService.startAutonomyLoop
startAutonomyLoop(a, maxSteps, readThrew) ==
    IF a.running THEN a
    ELSE runAutonomyStep([a EXCEPT !.running = TRUE, !.stepCount = 0],
                         maxSteps, readThrew)

\* steps in flight and timers pending
chains(a) == a.reading + a.handling + a.timers

Constructed(envs) ==
    /\ \E env \in envs :
          /\ settings = getIQSettings(DEFAULT_CHATROOMS, env)
          /\ defaultChatrooms = unshifted(DEFAULT_CHATROOMS, env)
    /\ status = "constructed"
    /\ sdkAvailable = FALSE
    /\ connection = FALSE
    /\ keypair = FALSE
    /\ dbRootId = FALSE
    /\ dbRootPda = FALSE
    /\ chatrooms = <<>>
    /\ roomEvents = <<>>
    /\ seenMessages = {}
    /\ ledger = {}
    /\ sendCount = 0
    /\ snd = SndIdle
    /\ sentEvents = <<>>
    /\ rd = [r \in {"poll", "ext"} |-> RdIdle]
    /\ poll = PollOff
    /\ received = [i \in Ids |-> 0]
    /\ handed = [i \in Ids |-> 0]
    /\ resolved = [ref |-> <<>>, name |-> <<>>, threw |-> FALSE, called |-> FALSE]
    /\ autonomy = AutoOff

\* ------------------------------------------------------ IQService.start
\* start = constructor + initialize.  A validation failure is thrown to the
\* caller; whatever fails after it is caught and logged inside initialize and
\* the service is returned as far as it got.
Start ==
    /\ status = "constructed"
    /\ IF ~validateIQSettings(settings)
       THEN /\ status' = "startFailed"
            /\ UNCHANGED <<settings, defaultChatrooms, sdkAvailable, connection,
                           keypair, dbRootId,
                           dbRootPda, autonomy, regVars, seenMessages,
                           sendVars, rd, pollVars, resolved>>
       ELSE LET sdk == settings.sdkInstalled
                connOk == settings.rpcUrl = "url"
                keyOk == /\ connOk
                         /\ \/ settings.privateKey = "valid"
                            \/ /\ settings.privateKey = "unset"
                               /\ settings.keypairPath = "file"
                caps == [dbRootId |-> keyOk, derive |-> sdk /\ keyOk]
            IN  /\ status' = "started"
                /\ sdkAvailable' = sdk
                /\ connection' = connOk
                /\ keypair' = keyOk
                /\ dbRootId' = keyOk
                /\ dbRootPda' = (sdk /\ keyOk)
                /\ IF keyOk
                   THEN PollCommit(pollRooms(
                            firstSweep(ensureAll(<<>>, <<>>, caps,
                                                 settings.chatrooms)),
                            ctxOf(caps, keyOk)))
                   ELSE UNCHANGED <<regVars, seenMessages, rd, pollVars>>
                \* the rooms are registered, so the first step's read awaits
                /\ autonomy' = IF keyOk /\ settings.autonomousMode
                               THEN startAutonomyLoop(autonomy,
                                        settings.autonomyMaxSteps, FALSE)
                               ELSE autonomy
                /\ UNCHANGED <<settings, defaultChatrooms, sendVars, resolved>>

\* ------------------------------------------- a direct resolveChatroom call
\* the service and what the caller holds once resolveChatroom(ref) returned r
resolvedAs(ref, r) ==
    /\ Len(r.rooms) <= MaxRooms \/ r.rooms = chatrooms
    /\ chatrooms' = r.rooms
    /\ roomEvents' = roomEvents \o r.emitted
    /\ resolved' = [ref |-> ref, name |-> r.name, threw |-> r.threw,
                    called |-> TRUE]

Resolve(ref) ==
    /\ status = "started"
    /\ resolvedAs(ref, resolveChatroom(chatrooms, capsNow,
                                        settings.defaultChatroom, ref))
    /\ UNCHANGED <<svcVars, seenMessages, sendVars, rd, pollVars>>

\* --------------------------------------------------------------- sendMessage
\* sendMessage past its guards, with its target t resolved: the message is
\* built and handed to writer.writeRow
writeRow(t, length) ==
    IF t.threw
    THEN /\ snd' = [SndIdle EXCEPT !.pc = "threw", !.err = "no-chatroom-config"]
         /\ UNCHANGED <<regVars, sendCount>>
    ELSE /\ sendCount < MaxSends
         /\ Len(t.rooms) <= MaxRooms \/ t.rooms = chatrooms
         /\ sendCount' = sendCount + 1
         /\ chatrooms' = t.rooms
         /\ roomEvents' = roomEvents \o t.emitted
         /\ snd' = [SndIdle EXCEPT !.pc = "writing", !.target = t.name,
                                   !.room = t.room,
                                   !.msg = SentMsg(sendCount + 1, length),
                                   !.writes = 1]

\* sendMessage up to the await of writer.writeRow.  The caller awaits each
\* call before it makes the next; the polling loop runs beside it.
SendCall(length, chatroom) ==
    /\ status = "started"
    /\ snd.pc = "idle"
    /\ rd["ext"].pc = "idle"
    /\ IF sendGuard(sdkAvailable, connection, keypair) # "ok"
       THEN /\ snd' = [SndIdle EXCEPT
                         !.pc = "threw",
                         !.err = sendGuard(sdkAvailable, connection, keypair)]
            /\ UNCHANGED <<regVars, sendCount>>
       ELSE writeRow(resolveTarget(chatrooms, capsNow,
                                   settings.defaultChatroom, chatroom),
                     length)
    /\ UNCHANGED <<svcVars, seenMessages, ledger, sentEvents, rd, pollVars,
                   resolved>>

\* variant: every row goes to the table of the default room
rowOfDefaultTable(s) ==
    [msg |-> s.msg, seed |-> tableSeedOf(settings.defaultChatroom),
     chatroom |-> s.target]

\* the row writeRow puts into the table of the target room
rowOf(s) == [msg |-> s.msg, seed |-> s.room.tableSeed, chatroom |-> s.target]

\* the ledger accepts the row and confirms it
LedgerConfirm ==
    /\ snd.pc = "writing"
    /\ ledger' = ledger \cup {rowOf(snd)}
    /\ snd' = [snd EXCEPT !.pc = "confirmed", !.txSig = txSigOf(snd.msg)]
    /\ UNCHANGED <<svcVars, regVars, seenMessages, sendCount, sentEvents, rd,
                   pollVars, resolved>>

\* writeRow rejects: the row was refused, or it landed and its confirmation
\* timed out
LedgerReject(err, landed) ==
    /\ snd.pc = "writing"
    /\ landed <=> err = "timeout"
    /\ ledger' = IF landed THEN ledger \cup {rowOf(snd)} ELSE ledger
    /\ snd' = [snd EXCEPT !.pc = "rejected", !.rejected = err]
    /\ UNCHANGED <<svcVars, regVars, seenMessages, sendCount, sentEvents, rd,
                   pollVars, resolved>>

\* variant: the id is not recorded
sendConfirmedNoSeen(seen, events, s) ==
    [seen |-> seen,
     events |-> Append(events, [message |-> s.msg, chatroom |-> s.target,
                                txSig |-> s.txSig]),
     snd |-> [s EXCEPT !.pc = "returned", !.ret = s.txSig]]

\* the rest of the try block once writeRow has resolved
sendConfirmed(seen, events, s) ==
    [seen |-> seen \cup {s.msg.id},
     events |-> Append(events, [message |-> s.msg, chatroom |-> s.target,
                                txSig |-> s.txSig]),
     snd |-> [s EXCEPT !.pc = "returned", !.ret = s.txSig]]

\* variant: the catch block writes again
sendRejectedRetry(seen, events, s) ==
    [seen |-> seen, events |-> events,
     snd |-> [s EXCEPT !.pc = "writing", !.writes = @ + 1]]

\* the catch block: log, then throw the error writeRow rejected with
sendRejected(seen, events, s) ==
    [seen |-> seen, events |-> events,
     snd |-> [s EXCEPT !.pc = "threw", !.err = s.rejected]]

\* the service once the continuation of sendMessage ran with outcome r
sendSettled(r) ==
    /\ seenMessages' = r.seen
    /\ sentEvents' = r.events
    /\ snd' = r.snd

\* sendMessage after the await: the success path or the catch block
SendResume ==
    /\ snd.pc \in {"confirmed", "rejected"}
    /\ sendSettled(IF snd.pc = "confirmed"
                   THEN sendConfirmed(seenMessages, sentEvents, snd)
                   ELSE sendRejected(seenMessages, sentEvents, snd))
    /\ UNCHANGED <<svcVars, regVars, ledger, sendCount, rd, pollVars, resolved>>

\* the caller has the result; the next sendMessage call can be made
SendReturn ==
    /\ snd.pc \in {"returned", "threw"}
    /\ snd' = SndIdle
    /\ UNCHANGED <<svcVars, regVars, seenMessages, ledger, sendCount,
                   sentEvents, rd, pollVars, resolved>>

\* ------------------------------------------------------------ readMessages
\* the service once a caller's readMessages ran to its first await
readIssued(r) ==
    /\ Len(r.rooms) <= MaxRooms \/ r.rooms = chatrooms
    /\ chatrooms' = r.rooms
    /\ roomEvents' = roomEvents \o r.emitted
    /\ rd' = [rd EXCEPT !["ext"] = r.slot]

\* a caller's readMessages up to the await of the primary API request
ReadCall(chatroom) ==
    /\ status = "started"
    /\ rd["ext"].pc = "idle"
    /\ snd.pc = "idle"
    /\ readIssued(readStart(chatrooms, capsNow, settings.defaultChatroom,
                             CallerLimit, chatroom))
    /\ UNCHANGED <<svcVars, seenMessages, sendVars, pollVars, resolved>>

\* messages a read source can hold
Readable == ForeignMsgs \cup {row.msg : row \in ledger}

\* the continuation of readMessages and of its caller after a source answered
\* and left the call in state slot
ReadContinue(r, slot) ==
    IF r = "poll" /\ slot.pc = "done"
    THEN PollCommit(pollBatch([machine(chatrooms, RdIdle, poll)
                                 EXCEPT !.batch = slot.result, !.skipped = {},
                                        !.cur = NoCur],
                              ctxOf(capsNow, keypair)))
    ELSE /\ rd' = [rd EXCEPT ![r] = slot]
         /\ UNCHANGED <<regVars, seenMessages, pollVars>>

ApiAnswer(r) ==
    /\ rd[r].pc = "api"
    /\ \/ \E msgs \in SeqsUpTo(Readable, rd[r].limit) :
             ReadContinue(r, readOk(rd[r], msgs))
       \/ ReadContinue(r, readAfterApi(rd[r], sdkAvailable, "fail"))
    /\ UNCHANGED <<svcVars, sendVars, resolved>>

GatewayAnswer(r) ==
    /\ rd[r].pc = "gateway"
    /\ \/ \E msgs \in SeqsUpTo(Readable, rd[r].limit) :
             ReadContinue(r, readOk(rd[r], msgs))
       \/ ReadContinue(r, readAfterGateway(rd[r], sdkAvailable, "fail"))
    /\ UNCHANGED <<svcVars, sendVars, resolved>>

DirectAnswer(r) ==
    /\ rd[r].pc = "direct"
    /\ \/ \E msgs \in SeqsUpTo(Readable, rd[r].limit) :
             ReadContinue(r, readOk(rd[r], msgs))
       \/ ReadContinue(r, readAfterDirect(rd[r], sdkAvailable, "fail"))
    /\ UNCHANGED <<svcVars, sendVars, resolved>>

\* the caller has the result of its readMessages call
ReadReturn ==
    /\ rd["ext"].pc \in {"done", "raised"}
    /\ rd' = [rd EXCEPT !["ext"] = RdIdle]
    /\ UNCHANGED <<svcVars, regVars, seenMessages, sendVars, pollVars, resolved>>

\* ------------------------------------------------------------ polling loop
\* processIncomingMessage returned: the batch goes on
HandoffDone ==
    /\ poll.pc = "handoff"
    /\ PollCommit(pollBatch(machine(chatrooms, RdIdle, poll),
                            ctxOf(capsNow, keypair)))
    /\ UNCHANGED <<svcVars, sendVars, resolved>>

\* variant: no per-room catch, the rejection ends this invocation of poll
HandoffRaiseAbort ==
    /\ poll.pc = "handoff"
    /\ PollCommit([machine(chatrooms, RdIdle, poll)
                     EXCEPT !.pc = "timer", !.batch = <<>>, !.idx = 0,
                            !.skipped = {}, !.cur = NoCur, !.swept = <<>>,
                            !.failed = {}, !.atStart = 0, !.sweeps = @ - 1])
    /\ UNCHANGED <<svcVars, sendVars, resolved>>

\* processIncomingMessage threw: the catch of this room, then the next room
HandoffRaise ==
    /\ poll.pc = "handoff"
    /\ PollCommit(pollRooms([machine(chatrooms, RdIdle, poll)
                               EXCEPT !.idx = @ + 1,
                                      !.failed = @ \cup {chatrooms[poll.idx].name}],
                            ctxOf(capsNow, keypair)))
    /\ UNCHANGED <<svcVars, sendVars, resolved>>

\* variant: the timer is armed when poll starts (setInterval) and can fire
\* while the sweep it started is still awaiting
PollTimerEarly ==
    /\ poll.pc \in {"timer", "reading", "handoff"}
    /\ PollCommit(pollRooms(sweepStart(machine(chatrooms, RdIdle, poll)),
                            ctxOf(capsNow, keypair)))
    /\ UNCHANGED <<svcVars, sendVars, resolved>>

\* the 5 s timer fires: poll runs again from the first registry entry
PollTimer ==
    /\ poll.pc = "timer"
    /\ PollCommit(pollRooms(sweepStart(machine(chatrooms, RdIdle, poll)),
                            ctxOf(capsNow, keypair)))
    /\ UNCHANGED <<svcVars, sendVars, resolved>>

\* -------------------------------------------------------------------- Next
\* ------------------------------------------------------- the autonomy loop
\* whether a call of runAutonomyStep gets as far as readMessages(10)
stepReads(a, maxSteps) ==
    a.running /\ ~(maxSteps # 0 /\ a.stepCount >= maxSteps)

\* runAutonomyStep is called on the loop fields a; t is the target its
\* readMessages(10) resolves, the default room
autonomyStep(a, t) ==
    /\ autonomy' = runAutonomyStep(a, settings.autonomyMaxSteps, t.threw)
    /\ IF stepReads(a, settings.autonomyMaxSteps)
       THEN /\ chatrooms' = t.rooms
            /\ roomEvents' = roomEvents \o t.emitted
       ELSE UNCHANGED regVars

\* a caller starts the loop
StartAutonomyLoop ==
    /\ status = "started"
    /\ ~autonomy.running
    /\ chains(autonomy) < ChainCap
    /\ autonomyStep([autonomy EXCEPT !.running = TRUE, !.stepCount = 0],
                    resolveTarget(chatrooms, capsNow, settings.defaultChatroom,
                                  <<>>))
    /\ UNCHANGED <<coreVars, seenMessages, sendVars, rd, pollVars, resolved>>

\* a caller stops the loop
StopAutonomyLoop ==
    /\ status = "started"
    /\ autonomy.running
    /\ autonomy' = stopAutonomyLoop(autonomy)
    /\ UNCHANGED <<coreVars, regVars, seenMessages, sendVars, rd, pollVars,
                   resolved>>

\* variant: stop() also cancels the polling loop
StopAll ==
    /\ status = "started"
    /\ autonomy' = [stopAutonomyLoop(autonomy) EXCEPT !.stopCalled = TRUE]
    /\ poll' = PollOff
    /\ rd' = [rd EXCEPT !["poll"] = RdIdle]
    /\ UNCHANGED <<coreVars, regVars, seenMessages, sendVars, received, handed,
                   resolved>>

\* IQService.stop
Stop ==
    /\ status = "started"
    /\ autonomy' = [stopAutonomyLoop(autonomy) EXCEPT !.stopCalled = TRUE]
    /\ UNCHANGED <<coreVars, regVars, seenMessages, sendVars, rd, pollVars,
                   resolved>>

\* the readMessages(10) of a step has returned (a source answered, or none
\* did and the result is empty): the step awaits handleMessage
AutonomyReadDone ==
    /\ autonomy.reading > 0
    /\ autonomy' = [autonomy EXCEPT !.reading = @ - 1, !.handling = @ + 1]
    /\ UNCHANGED <<coreVars, regVars, seenMessages, sendVars, rd, pollVars,
                   resolved>>

\* handleMessage has resolved or rejected: the step ends
AutonomyHandled ==
    /\ autonomy.handling > 0
    /\ autonomy' = scheduleNext([autonomy EXCEPT !.handling = @ - 1])
    /\ UNCHANGED <<coreVars, regVars, seenMessages, sendVars, rd, pollVars,
                   resolved>>

\* a pending timer fires: the one autonomyTimeout refers to, or an earlier one
AutonomyTimer(latest) ==
    /\ autonomy.timers > 0
    /\ IF latest THEN autonomy.handleLive
       ELSE autonomy.timers > (IF autonomy.handleLive THEN 1 ELSE 0)
    /\ autonomyStep([autonomy EXCEPT !.timers = @ - 1,
                                     !.handleLive = IF latest THEN FALSE ELSE @],
                    resolveTarget(chatrooms, capsNow, settings.defaultChatroom,
                                  <<>>))
    /\ UNCHANGED <<coreVars, seenMessages, sendVars, rd, pollVars, resolved>>

Next ==
    \/ Start
    \/ \E ref \in CallerRefs : SendCall(ShortLength, ref)
    \/ LedgerConfirm
    \/ \E err \in WriteErrors, landed \in BOOLEAN : LedgerReject(err, landed)
    \/ SendResume
    \/ SendReturn
    \/ \E ref \in CallerRefs : ReadCall(ref)
    \/ \E r \in {"poll", "ext"} : ApiAnswer(r)
    \/ \E r \in {"poll", "ext"} : GatewayAnswer(r)
    \/ \E r \in {"poll", "ext"} : DirectAnswer(r)
    \/ ReadReturn
    \/ HandoffDone
    \/ HandoffRaise
    \/ PollTimer

\* the rows of a room's table that the ledger holds
tableRows(room) == {row.msg : row \in {x \in ledger : x.seed = room.tableSeed}}

\* a source answers the caller's read of the room the n-th message was sent to
\* with rows of the room's table, the finalized ones among them
FinalizedAnswer(n) ==
    /\ n <= Len(sentEvents)
    /\ rd["ext"].pc \in {"api", "gateway", "direct"}
    /\ rd["ext"].target = sentEvents[n].chatroom
    /\ \E msgs \in SeqsUpTo(Readable, rd["ext"].limit) :
          /\ \A m \in tableRows(rd["ext"].room) : listIncludes(msgs, m)
          /\ ReadContinue("ext", readOk(rd["ext"], msgs))
    /\ UNCHANGED <<svcVars, sendVars, resolved>>

Init == Constructed(Envs)

Spec == Init /\ [][Next]_vars

\* The agent that reads back what it sent: a signer, the SDK, autonomous mode.
EnvsLive ==
    { Env(<< <<"A", "a">> >>, NoValue, "unset", "file", "url", TRUE, "set", TRUE) }

InitLive == Constructed(EnvsLive)

\* in autonomous mode the poller hands nothing to the consumer
NextLive ==
    \/ Start
    \/ \E ref \in CallerRefs : SendCall(ShortLength, ref)
    \/ LedgerConfirm
    \/ \E err \in WriteErrors, landed \in BOOLEAN : LedgerReject(err, landed)
    \/ SendResume
    \/ SendReturn
    \/ \E ref \in CallerRefs : ReadCall(ref)
    \/ \E r \in {"poll", "ext"} : ApiAnswer(r)
    \/ \E r \in {"poll", "ext"} : GatewayAnswer(r)
    \/ \E r \in {"poll", "ext"} : DirectAnswer(r)
    \/ ReadReturn
    \/ PollTimer

\* the caller is between calls: ReadCall(ref) is enabled for every ref
callerIdle == status = "started" /\ rd["ext"].pc = "idle" /\ snd.pc = "idle"

\* The ledger settles every write, every awaited call of the caller resumes and
\* every request of the caller is answered (weak fairness); the caller keeps
\* reading each room it has a reference for, and a source that is asked again
\* and again answers with the finalized rows (strong fairness, the caller's
\* with ENABLED <<ReadCall(ref)>>_vars written out as callerIdle).
SpecLive ==
    /\ InitLive
    /\ [][NextLive]_vars
    /\ WF_vars(LedgerConfirm \/ \E err \in WriteErrors, landed \in BOOLEAN :
                                    LedgerReject(err, landed))
    /\ WF_vars(SendResume)
    /\ WF_vars(SendReturn)
    /\ WF_vars(ReadReturn)
    /\ WF_vars(ApiAnswer("ext") \/ GatewayAnswer("ext") \/ DirectAnswer("ext"))
    /\ \A ref \in CallerRefs : []<>callerIdle => []<><<ReadCall(ref)>>_vars
    /\ \A n \in 1..MaxSends : SF_vars(FinalizedAnswer(n))

\* The service with its two loops and callers that start and stop them: a
\* healthy agent in either mode, an autonomous one with a step limit, and one
\* whose signer does not load.
EnvsLoops ==
    { Env(<< <<"a">>, <<"A">> >>, NoValue, "valid", "unset", "url", FALSE, "unset", TRUE),
      Env(<< <<"A", "a">> >>, NoValue, "unset", "file", "url", TRUE, "set", TRUE),
      withMaxSteps(Env(<< <<"A", "a">> >>, NoValue, "unset", "file", "url", TRUE,
                       "set", TRUE), StepLimit),
      Env(NoList, NoValue, "undecodable", "file", "url", FALSE, "unset", TRUE) }

InitLoops == Constructed(EnvsLoops)

NextLoops ==
    \/ Start
    \/ StartAutonomyLoop
    \/ StopAutonomyLoop
    \/ Stop
    \/ AutonomyReadDone
    \/ AutonomyHandled
    \/ \E latest \in BOOLEAN : AutonomyTimer(latest)
    \/ ApiAnswer("poll")
    \/ GatewayAnswer("poll")
    \/ DirectAnswer("poll")
    \/ HandoffDone
    \/ HandoffRaise
    \/ PollTimer

SpecLoops == InitLoops /\ [][NextLoops]_vars

\* the poller awaits a source
pollAwaitsSource == rd["poll"].pc \in {"api", "gateway", "direct"}

\* Every request of the poller is answered or fails, every hand-off resolves
\* or rejects, and the 5 s timer fires: weak fairness of the three, with
\* ENABLED written out as the poller's position.
SpecLoopsFair ==
    /\ SpecLoops
    /\ <>[]pollAwaitsSource
          => []<><<ApiAnswer("poll") \/ GatewayAnswer("poll")
                                    \/ DirectAnswer("poll")>>_vars
    /\ <>[](poll.pc = "handoff") => []<><<HandoffDone \/ HandoffRaise>>_vars
    /\ <>[](poll.pc = "timer") => []<><<PollTimer>>_vars

\* The service with callers that only send: every room list with every default
\* room, and a default room that differs from a listed room in case only.
EnvsSend ==
    { Env(l, d, "valid", "unset", "url", FALSE, "unset", TRUE) :
          l \in RoomLists, d \in DefaultRooms }
    \cup { Env(<< <<"a">>, <<"A">> >>, <<"A">>, "valid", "unset", "url", FALSE,
               "unset", TRUE) }

InitSend == Constructed(EnvsSend)

NextSend ==
    \/ Start
    \/ \E length \in ContentLengths, ref \in CallerRefs : SendCall(length, ref)
    \/ LedgerConfirm
    \/ \E err \in WriteErrors, landed \in BOOLEAN : LedgerReject(err, landed)
    \/ SendResume
    \/ SendReturn

SpecSend == InitSend /\ [][NextSend]_vars

\* One process in which services are constructed one after the other, each
\* from its own runtime's environment: with and without a room list, with
\* every default room.  The model follows the settings of the latest one.
EnvsLoad ==
    { Env(l, d, "valid", "unset", "url", auto, "set", TRUE) :
          l \in RoomLists, d \in DefaultRooms, auto \in BOOLEAN }

\* new IQService(runtime): the constructor loads the settings
Construct(env) ==
    /\ status = "constructed"
    /\ settings' = getIQSettings(defaultChatrooms, env)
    /\ defaultChatrooms' = unshifted(defaultChatrooms, env)
    /\ UNCHANGED <<status, sdkAvailable, connection, keypair, dbRootId, dbRootPda,
                   autonomy, regVars, seenMessages, sendVars, rd, pollVars,
                   resolved>>

InitLoad == Constructed(EnvsLoad)

NextLoad == \E env \in EnvsLoad : Construct(env)

SpecLoad == InitLoad /\ [][NextLoad]_vars

\* the service with callers that only resolve references
InitResolve == Constructed(EnvsResolve)

NextResolve ==
    \/ Start
    \/ \E ref \in Refs : Resolve(ref)

SpecResolve == InitResolve /\ [][NextResolve]_vars

TypeOK ==
    /\ status \in {"constructed", "startFailed", "started"}
    /\ seenMessages \subseteq Ids
    /\ poll.pc \in {"off", "reading", "handoff", "timer"}
    /\ snd.pc \in {"idle", "writing", "confirmed", "rejected", "returned", "threw"}
    /\ \A r \in {"poll", "ext"} :
          rd[r].pc \in {"idle", "api", "gateway", "direct", "done", "raised"}
    /\ autonomy.timers \in 0..ChainCap
    /\ autonomy.reading \in 0..ChainCap
    /\ autonomy.handling \in 0..ChainCap
    /\ autonomy.stepCount \in 0..CountCap

\* ================================================================== claims
Slots == {"poll", "ext"}

SourceOrder == <<"api", "gateway", "direct">>

\* C1: readMessages tries the primary API, then the gateway, then the direct
\* ledger read, in that order, and invokes a source only after every earlier
\* one failed; a source that answered is the last one invoked.
C1_FallbackOrder ==
    \A r \in Slots :
        LET c == rd[r].calls IN
        /\ Len(c) <= 3
        /\ \A i \in 1..Len(c) : c[i].src = SourceOrder[i]
        /\ \A i \in 1..(Len(c) - 1) : c[i].res = "fail"
        /\ rd[r].pc = "done" => c[Len(c)].res \in {"ok", "fail"}

\* a read the gateway answered after the primary API failed, ended there
C1_Witness ==
    /\ rd["ext"].pc = "done"
    /\ rd["ext"].calls = <<[src |-> "api", res |-> "fail"],
                           [src |-> "gateway", res |-> "ok"]>>

\* C2: readMessages never raises, and returns the empty sequence when no
\* source answered.
C2_ReadNeverRaises ==
    \A r \in Slots :
        /\ rd[r].pc # "raised"
        /\ (rd[r].pc = "done" /\ \A i \in 1..Len(rd[r].calls) :
                                      rd[r].calls[i].res # "ok")
              => rd[r].result = <<>>

\* C3: a message id is announced as received and handed to the consumer at
\* most once, over all sweeps and rooms.
C3_AtMostOnce ==
    \A id \in Ids : handed[id] <= 1 /\ received[id] <= 1

\* the poller is handing off a message, having passed over, in the same batch,
\* an id it had handed off before
C3_Witness ==
    /\ poll.pc = "handoff"
    /\ \E id \in poll.skipped : handed[id] = 1 /\ id \in seenMessages

\* C4: a message whose wallet is the local signer's is never announced as
\* received nor handed to the consumer.
C4_NoSelfEcho ==
    \A m \in Msgs :
        m.wallet = getWalletAddress(keypair) =>
            handed[m.id] = 0 /\ received[m.id] = 0

\* the poller passed over the message of a send whose id is not yet in the
\* seen-set, and went on to hand off the next message of the batch
C4_Witness ==
    /\ poll.pc = "handoff"
    /\ snd.pc = "confirmed"
    /\ snd.msg.id \in poll.skipped
    /\ snd.msg.id \notin seenMessages

\* C5: a sendMessage call makes one writeRow call, also when that call fails,
\* and then throws the error writeRow rejected with.
C5_NoRetry ==
    /\ snd.writes <= 1
    /\ snd.pc \in {"writing", "confirmed", "rejected", "returned"}
          => snd.writes = 1
    /\ (snd.pc = "threw" /\ snd.writes > 0)
          => snd.writes = 1 /\ snd.err = snd.rejected /\ snd.err \in WriteErrors

C5_Witness ==
    /\ snd.pc = "threw"
    /\ snd.writes = 1
    /\ snd.err = "rejected"

eventsOf(id) == {i \in 1..Len(sentEvents) : sentEvents[i].message.id = id}

\* C6: a confirmed send has its id in the seen-set, one MESSAGE_SENT event
\* with the message, the room name and the transaction reference, and returns
\* that reference; a failed send has neither the id in the seen-set nor an event.
C6_SendEffects ==
    /\ snd.pc = "returned" =>
          /\ snd.msg.id \in seenMessages
          /\ snd.ret = snd.txSig
          /\ Cardinality(eventsOf(snd.msg.id)) = 1
          /\ \A i \in eventsOf(snd.msg.id) :
                sentEvents[i] = [message |-> snd.msg, chatroom |-> snd.target,
                                 txSig |-> snd.ret]
    /\ snd.pc \in {"writing", "confirmed", "rejected", "threw"} =>
          /\ snd.msg.id \notin seenMessages
          /\ eventsOf(snd.msg.id) = {}

C6_Witness ==
    /\ snd.pc = "returned"
    /\ Len(sentEvents) = 1
    /\ snd.msg.id \in seenMessages

\* C7: sendMessage without the SDK, or without connection or keypair, throws
\* without a writeRow call and changes neither the registry, the seen-set,
\* the ledger nor the events.
C7_GuardedSend ==
    [][ (snd.pc = "idle" /\ snd'.pc # "idle"
         /\ (~sdkAvailable \/ ~connection \/ ~keypair))
        => /\ snd'.pc = "threw"
           /\ snd'.writes = 0
           /\ snd'.err \in {"sdk-required", "not-initialized"}
           /\ UNCHANGED <<chatrooms, roomEvents, seenMessages, sentEvents,
                          ledger, sendCount>> ]_vars

\* a send refused in read-only mode, by a service that has its signer
C7_Witness ==
    /\ snd.pc = "threw"
    /\ snd.err = "sdk-required"
    /\ keypair /\ ~sdkAvailable

Variants(name) ==
    {n \in [1..Len(name) -> Chars] : toLowerCase(n) = toLowerCase(name)}

\* C8: ensureChatroom with a name that differs from a registered room's only in
\* letter case returns that room as registered, leaves the registry as it is
\* and emits nothing; each room was announced once, when it was created.
C8_EnsureIdempotent ==
    /\ \A i \in 1..Len(chatrooms) :
          \A n \in Variants(chatrooms[i].name) :
              LET e == ensureChatroom(chatrooms, capsNow, n) IN
              /\ ~e.threw
              /\ e.room = chatrooms[i]
              /\ e.rooms = chatrooms
              /\ e.emitted = <<>>
    /\ roomEvents = getConnectedChatrooms(chatrooms)

\* initialize went through a room list that names one room in two casings
C8_Witness ==
    /\ status = "started"
    /\ \E i, j \in 1..Len(settings.chatrooms) :
          /\ i < j
          /\ settings.chatrooms[i] # settings.chatrooms[j]
          /\ toLowerCase(settings.chatrooms[i]) = toLowerCase(settings.chatrooms[j])
          /\ \E k \in 1..Len(chatrooms) : chatrooms[k].name = settings.chatrooms[i]
    /\ Len(chatrooms) < Len(settings.chatrooms)

\* C9: the registry holds one room per case-insensitive name, each stored
\* under the lowercase form of its name.
C9_RegistryKeys ==
    /\ \A i \in 1..Len(chatrooms) :
          chatrooms[i].key = toLowerCase(chatrooms[i].name)
    /\ \A i, j \in 1..Len(chatrooms) :
          i # j => toLowerCase(chatrooms[i].name) # toLowerCase(chatrooms[j].name)

\* a registry that grew by a caller's reference, after a send and a full sweep
C9_Witness ==
    /\ Len(chatrooms) > Len(ensureAll(<<>>, <<>>, capsNow, settings.chatrooms).rooms)
    /\ sendCount > 0
    /\ poll.pc = "timer"

\* C10: a resolveChatroom call whose trimmed lowercase ref is the key of a
\* registered room returns that room's name and leaves the registry as it is.
C10_ExactMatch ==
    [][ (status = "started" /\ resolved' # resolved
         /\ mapHas(chatrooms, trim(toLowerCase(resolved'.ref))))
        => /\ ~resolved'.threw
           /\ resolved'.name =
                 mapGet(chatrooms, trim(toLowerCase(resolved'.ref))).name
           /\ UNCHANGED <<chatrooms, roomEvents>> ]_vars

\* the ref named the second room while the first one contains its key
C10_Witness ==
    /\ resolved.called
    /\ Len(chatrooms) >= 2
    /\ chatrooms[2].key = trim(toLowerCase(resolved.ref))
    /\ fuzzy(chatrooms[1].key, chatrooms[2].key)
    /\ resolved.name = chatrooms[2].name
    /\ resolved.ref # chatrooms[2].name

normalized(ref) == trim(toLowerCase(ref))

\* indices of the rooms whose key contains the normalized ref or is contained in it
related(rooms, ref) ==
    {i \in 1..Len(rooms) : fuzzy(rooms[i].key, normalized(ref))}

\* C11: when no registered key equals the normalized ref and some key has a
\* substring relation with it, resolveChatroom returns the name of the
\* earliest-registered such room and leaves the registry as it is.
C11_FirstFuzzyWins ==
    [][ (status = "started" /\ resolved' # resolved /\ resolved'.ref # <<>>
         /\ ~mapHas(chatrooms, normalized(resolved'.ref))
         /\ related(chatrooms, resolved'.ref) # {})
        => /\ ~resolved'.threw
           /\ \E i \in related(chatrooms, resolved'.ref) :
                 /\ \A j \in related(chatrooms, resolved'.ref) : i <= j
                 /\ resolved'.name = chatrooms[i].name
           /\ UNCHANGED <<chatrooms, roomEvents>> ]_vars

\* two rooms are related to the ref, none equals it, the earlier one is returned
C11_Witness ==
    /\ resolved.called
    /\ normalized(resolved.ref) # <<>>
    /\ ~mapHas(chatrooms, normalized(resolved.ref))
    /\ Cardinality(related(chatrooms, resolved.ref)) >= 2
    /\ \E i \in related(chatrooms, resolved.ref) :
          /\ \A j \in related(chatrooms, resolved.ref) : i <= j
          /\ resolved.name = chatrooms[i].name
          /\ \E j \in related(chatrooms, resolved.ref) :
                chatrooms[j].name # chatrooms[i].name

\* C12: when the normalized ref neither equals a registered key nor has a
\* substring relation with one, resolveChatroom registers a room named by the
\* ref and returns that name; a registered room stays in the registry.
C12_NewRoom ==
    [][ /\ (status = "started" /\ resolved' # resolved /\ resolved'.ref # <<>>
            /\ ~mapHas(chatrooms, normalized(resolved'.ref))
            /\ related(chatrooms, resolved'.ref) = {})
           => /\ ~resolved'.threw
              /\ resolved'.name = resolved'.ref
              /\ listIncludes(getConnectedChatrooms(chatrooms'), resolved'.ref)
        /\ \A i \in 1..Len(chatrooms) :
              listIncludes(getConnectedChatrooms(chatrooms'), chatrooms[i].name)
      ]_vars

\* C13: resolveChatroom with an empty or absent ref returns the configured
\* default room name and leaves the registry and its notifications as they are.
C13_EmptyRef ==
    [][ (status = "started" /\ resolved' # resolved /\ resolved'.ref = <<>>)
        => /\ ~resolved'.threw
           /\ resolved'.name = settings.defaultChatroom
           /\ UNCHANGED <<chatrooms, roomEvents>> ]_vars

\* the empty ref was resolved to a default room that is not the first entry
C13_Witness ==
    /\ resolved.called
    /\ resolved.ref = <<>>
    /\ resolved.name = settings.defaultChatroom
    /\ Len(chatrooms) >= 2
    /\ chatrooms[1].name # settings.defaultChatroom

\* C14: resolveChatroom never raises.
C14_ResolveNeverRaises == ~resolved.threw

\* settings objects as validateIQSettings can be handed them
SettingsSpace ==
    [ rpcUrl : {"unset", "url", "malformed"},
      keypairPath : {"unset", "file", "nofile"},
      privateKey : {"unset", "valid", "undecodable"},
      autonomousMode : BOOLEAN, llmApiKey : {"unset", "set"} ]

noSigner(s) == s.keypairPath = "unset" /\ s.privateKey = "unset"

noRpc(s) == s.rpcUrl = "unset"

C16_SweepCoversRooms ==
    [][ (poll.pc \in {"reading", "handoff"} /\ poll'.pc = "timer")
        => \A i \in 1..poll.atStart :
              listIncludes(poll.swept, chatrooms[i].name) ]_vars

\* the hand-off of an earlier room raised and a later room is being read
C16_Witness ==
    /\ poll.pc = "reading"
    /\ poll.idx >= 2
    /\ chatrooms[1].name \in poll.failed
    /\ poll.swept[poll.idx] = chatrooms[poll.idx].name
    /\ rd["poll"].target = chatrooms[poll.idx].name

\* the caller's read has returned the n-th sent message from the room it was
\* sent to
readBack(n) ==
    /\ n <= Len(sentEvents)
    /\ rd["ext"].pc = "done"
    /\ rd["ext"].target = sentEvents[n].chatroom
    /\ \E i \in 1..Len(rd["ext"].result) :
          /\ rd["ext"].result[i].id = sentEvents[n].message.id
          /\ rd["ext"].result[i].content = sentEvents[n].message.content

\* C17: once sendMessage has succeeded for a room, a later readMessages of that
\* room eventually returns a message with the same id and the same content,
\* given that the ledger finalizes and a read source answers with the room's
\* rows.
C17_ReadAfterSend ==
    \A n \in 1..MaxSends : (Len(sentEvents) >= n) ~> readBack(n)

C17_Witness ==
    /\ readBack(1)
    /\ rd["ext"].calls # <<>>
    /\ snd.pc = "idle"

\* the messages whose wallet is the local signer's
ownIds == {m.id : m \in {x \in Msgs : x.wallet = getWalletAddress(keypair)}}

inFlight ==
    (IF rd["poll"].pc \in {"api", "gateway", "direct"} THEN 1 ELSE 0)
    + (IF poll.pc = "handoff" THEN 1 ELSE 0)

\* C19: the poller is strictly sequential: at most one invocation of poll is
\* between its start and its setTimeout; it awaits one read or one hand-off at
\* a time; a read in flight is the read of the registry entry the sweep is at,
\* so the next room is not read while a hand-off of the current room is
\* awaited; between sweeps nothing is in flight.
C19_Sequential ==
    /\ poll.sweeps <= 1
    /\ inFlight <= 1
    /\ poll.pc \in {"reading", "handoff"} <=> poll.sweeps = 1
    /\ poll.pc \in {"reading", "handoff"} <=> inFlight = 1
    /\ poll.pc = "reading" =>
          /\ rd["poll"].pc \in {"api", "gateway", "direct"}
          /\ rd["poll"].target = chatrooms[poll.idx].name
          /\ Len(poll.swept) = poll.idx
    /\ poll.pc = "handoff" =>
          /\ rd["poll"].pc = "idle"
          /\ Len(poll.swept) = poll.idx

\* the sweep reads its second room after a hand-off of the first has completed
C19_Witness ==
    /\ poll.pc = "reading"
    /\ poll.idx = 2
    /\ poll.sweeps = 1
    /\ chatrooms[1].name \notin poll.failed
    /\ \E id \in Ids : handed[id] = 1

\* C20: a sweep reads the rooms that were registered when it began: a room
\* registered while the sweep is in progress is not read before the following
\* sweep.
C20_SweepSnapshot ==
    poll.pc \in {"reading", "handoff"} =>
        /\ poll.idx <= poll.atStart
        /\ Len(poll.swept) <= poll.atStart

\* a sweep is under way
sweeping == poll.pc \in {"reading", "handoff"}

\* C21: once polling has started it does not end: no step turns the loop off,
\* a sweep that ends, with or without failed rooms, leaves the timer of the
\* next sweep pending, a call of stop() leaves the poller as it is, every
\* sweep reaches its end and every pending timer starts a sweep.
C21_PollingGoesOn ==
    /\ [][ /\ poll.pc # "off" => poll'.pc # "off"
           /\ (sweeping /\ ~sweeping') => poll'.pc = "timer"
           /\ (autonomy'.stopCalled /\ ~autonomy.stopCalled)
                 => (poll' = poll /\ rd' = rd) ]_vars
    /\ sweeping ~> (poll.pc = "timer")
    /\ (poll.pc = "timer") ~> sweeping

\* stop() has been called and a sweep goes on past a room that failed
C21_Witness ==
    /\ autonomy.stopCalled
    /\ ~autonomy.running
    /\ poll.pc = "reading"
    /\ poll.idx = 2
    /\ chatrooms[1].name \in poll.failed

\* ids of the messages a MESSAGE_SENT notification was emitted for
sentIds == {sentEvents[i].message.id : i \in 1..Len(sentEvents)}

\* ids of the messages the poller announced with MESSAGE_RECEIVED
receivedIds == {id \in Ids : received[id] >= 1}

\* C22: the seen-set only grows; it holds exactly the ids of the messages whose
\* send was confirmed and of the messages the poller announced as received;
\* the id of a self-authored message is in it only through its send.
C22_SeenSet ==
    /\ [](seenMessages = sentIds \cup receivedIds)
    /\ [](\A id \in ownIds : received[id] = 0)
    /\ [][seenMessages \subseteq seenMessages']_vars

\* the seen-set holds the id of a confirmed send and the id of a message the
\* poller announced, and the poller has passed over the sent message since
C22_Witness ==
    /\ Len(sentEvents) = 1
    /\ snd.pc = "idle"
    /\ poll.pc = "handoff"
    /\ sentEvents[1].message.id \in poll.skipped
    /\ Cardinality(seenMessages) = 2

\* the registered rooms whose canonical name is name
roomsNamed(name) == {i \in 1..Len(chatrooms) : chatrooms[i].name = name}

\* C23: the write of sendMessage goes to the table of the registered room whose
\* canonical name is the room name in the written message and in the
\* MESSAGE_SENT notification.
C23_WriteAddress ==
    /\ \A row \in ledger :
          \E i \in roomsNamed(row.chatroom) : chatrooms[i].tableSeed = row.seed
    /\ snd.pc \in {"writing", "confirmed", "rejected", "returned"} =>
          \E i \in roomsNamed(snd.target) : chatrooms[i] = snd.room
    /\ \A n \in 1..Len(sentEvents) :
          \E row \in ledger :
             /\ row.msg = sentEvents[n].message
             /\ row.chatroom = sentEvents[n].chatroom

\* C24: sendMessage writes no message whose content is longer than
\* MESSAGE_LIMITS.maxContentLength.
C24_ContentLimit ==
    /\ \A row \in ledger : contentLength(row.msg.content) <= maxContentLength
    /\ snd.pc = "writing" => contentLength(snd.msg.content) <= maxContentLength

\* C25: when start has returned an instance, initialization went through: the
\* signer is loaded, the configured rooms are registered and the polling loop
\* runs.
C25_StartedIsInitialized ==
    status = "started" =>
        /\ connection /\ keypair /\ dbRootId
        /\ \A i \in 1..Len(settings.chatrooms) :
              mapHas(chatrooms, toLowerCase(settings.chatrooms[i]))
        /\ poll.pc # "off"

\* what resolveChatroom does, called now with the canonical name of room i
resolveOwnName(i) ==
    resolveChatroom(chatrooms, capsNow, settings.defaultChatroom,
                    chatrooms[i].name)

C27_RaisedHandoff ==
    /\ [](poll.pc = "handoff" =>
            /\ poll.cur.id \in seenMessages
            /\ handed[poll.cur.id] = 1
            /\ \A id \in poll.skipped :
                  id \in seenMessages \/ id \in ownIds)
    /\ [][\A id \in seenMessages : handed'[id] = handed[id]]_vars
    /\ [][HandoffRaise =>
            /\ seenMessages' = seenMessages
            /\ received' = received
            /\ handed' = handed
            /\ poll'.pc \in {"reading", "timer"}
            /\ poll'.batch = <<>>]_vars

\* the hand-off of the first message of room 1's batch raised; room 2's read
\* returned the same two messages: the first is passed over, the second is
\* handed over
C27_Witness ==
    /\ poll.pc = "handoff"
    /\ poll.idx = 2
    /\ chatrooms[1].name \in poll.failed
    /\ \E id \in poll.skipped : handed[id] = 1 /\ id \notin ownIds
    /\ handed[poll.cur.id] = 1

\* C28: at most one chain of autonomy steps is alive: never more than one
\* step in flight, never more than one pending timer, never both.
C28_OneChain ==
    /\ autonomy.reading + autonomy.handling <= 1
    /\ autonomy.timers <= 1
    /\ chains(autonomy) <= 1

\* C29: in an initialized service a ref of blanks only resolves like the empty
\* ref, to the default room.
C29_BlankRef ==
    (keypair /\ resolved.called /\ resolved.ref # <<>>
       /\ trim(resolved.ref) = <<>>) =>
        /\ ~resolved.threw
        /\ resolved.name = settings.defaultChatroom

\* C30: getIQSettings leaves the shared DEFAULT_CHATROOMS as it is: a load
\* without a room list yields the default rooms and its own default room, and
\* no default room of an earlier load.
C30_DefaultsUntouched ==
    /\ [](defaultChatrooms = DEFAULT_CHATROOMS)
    /\ [][\A env \in EnvsLoad :
            (env.IQ_CHATROOMS = NoList /\ Construct(env)) =>
                \A i \in 1..Len(settings'.chatrooms) :
                    \/ settings'.chatrooms[i] = settings'.defaultChatroom
                    \/ listIncludes(DEFAULT_CHATROOMS, settings'.chatrooms[i])]_vars
====
